---- MODULE Spec2Model ----
(***************************************************************************)
(* Model of MyOfflineProtocol (src/src/protocol-offline.ts).               *)
(*                                                                         *)
(* JavaScript strings are sequences of one-character strings, a            *)
(* Uint8Array is a sequence of integers in 0..255 (index i of the code is  *)
(* index i+1 of the sequence).  A call on the protocol instance runs to    *)
(* completion when it is made (no method awaits anything), so one action   *)
(* is one call; the value it hands back is recorded in `promises`.  The    *)
(* class declares no field and no method assigns to `this`, so the record   *)
(* of the calls is the whole state.                                        *)
(***************************************************************************)
EXTENDS Integers, Sequences, FiniteSets, TLC

VARIABLES promises

vars == <<promises>>

(***************************************************************************)
(* Bound of the model: number of calls the host makes on one instance.     *)
(***************************************************************************)
MaxCalls == 2

(***************************************************************************)
(* Number -> text, as Number.prototype.toString(16) and padStart(2, '0')   *)
(***************************************************************************)
HexDigits == <<"0", "1", "2", "3", "4", "5", "6", "7",
               "8", "9", "a", "b", "c", "d", "e", "f">>

RECURSIVE NumberToString16(_)
NumberToString16(n) ==
    IF n < 16 THEN <<HexDigits[n + 1]>>
    ELSE NumberToString16(n \div 16) \o <<HexDigits[(n % 16) + 1]>>

PadStart2(s) == IF Len(s) < 2 THEN <<"0">> \o s ELSE s

\* Array.from(fullKeypair, byte => byte.toString(16).padStart(2, '0')).join('')
BytesToHexString(bytes) ==
    [j \in 1..(2 * Len(bytes)) |->
        PadStart2(NumberToString16(bytes[(j + 1) \div 2]))[2 - (j % 2)]]

(***************************************************************************)
(* Text -> number, as parseInt(text, 16): leading white space is skipped,  *)
(* one sign is accepted, a 0x/0X prefix is skipped, then the longest run   *)
(* of hexadecimal digits is read; no digit at all gives NaN.               *)
(***************************************************************************)
DigitValue(c) ==
    CASE c = "0" -> 0  [] c = "1" -> 1  [] c = "2" -> 2  [] c = "3" -> 3
      [] c = "4" -> 4  [] c = "5" -> 5  [] c = "6" -> 6  [] c = "7" -> 7
      [] c = "8" -> 8  [] c = "9" -> 9
      [] c \in {"a", "A"} -> 10  [] c \in {"b", "B"} -> 11
      [] c \in {"c", "C"} -> 12  [] c \in {"d", "D"} -> 13
      [] c \in {"e", "E"} -> 14  [] c \in {"f", "F"} -> 15
      [] OTHER -> -1

\* StrWhiteSpaceChar of ECMAScript: WhiteSpace (TAB, VT, FF, SP, NBSP, ZWNBSP and
\* the space separators) and LineTerminator (LF, CR, LS, PS).  A code unit is
\* written as the character itself where a string can hold it, and also under
\* its escape \uXXXX, the only form available above U+1FFF.
WhiteSpaceChars ==
    {"\t", "\n", "\f", "\r", " ", "", " ", "﻿", " ",
     "\\u0009", "\\u000a", "\\u000b", "\\u000c", "\\u000d", "\\u0020",
     "\\u00a0", "\\u1680",
     "\\u2000", "\\u2001", "\\u2002", "\\u2003", "\\u2004", "\\u2005",
     "\\u2006", "\\u2007", "\\u2008", "\\u2009", "\\u200a",
     "\\u2028", "\\u2029", "\\u202f", "\\u205f", "\\u3000", "\\ufeff"}

IsWhiteSpace(c) == c \in WhiteSpaceChars

RECURSIVE TrimStart(_)
TrimStart(s) ==
    IF s # <<>> /\ IsWhiteSpace(Head(s)) THEN TrimStart(Tail(s)) ELSE s

RECURSIVE ParseDigits(_, _, _)
ParseDigits(s, acc, seen) ==
    IF s # <<>> /\ DigitValue(Head(s)) >= 0
    THEN ParseDigits(Tail(s), acc * 16 + DigitValue(Head(s)), TRUE)
    ELSE [isNaN |-> ~seen, value |-> acc]

ParseInt16(text) ==
    LET t    == TrimStart(text)
        neg  == t # <<>> /\ Head(t) = "-"
        u    == IF t # <<>> /\ Head(t) \in {"-", "+"} THEN Tail(t) ELSE t
        v    == IF Len(u) >= 2 /\ u[1] = "0" /\ u[2] \in {"x", "X"}
                THEN SubSeq(u, 3, Len(u)) ELSE u
        r    == ParseDigits(v, 0, FALSE)
    IN  [isNaN |-> r.isNaN, value |-> IF neg THEN 0 - r.value ELSE r.value]

\* Conversion of a Number stored into a Uint8Array element: NaN -> 0, mod 2^8
ToUint8(n) == IF n.isNaN THEN 0 ELSE n.value % 256

\* String.prototype.substr(start, length)
Substr(str, start, length) ==
    SubSeq(str, start + 1, IF start + length < Len(str) THEN start + length ELSE Len(str))

(***************************************************************************)
(* Uint8Array                                                              *)
(***************************************************************************)
\* new Uint8Array(n): zero filled
NewUint8Array(n) == [i \in 1..n |-> 0]

\* Variant: a source that does not fit is cut at the end of the target
TypedArraySetClipped(target, source, offset) ==
    [threw |-> FALSE,
     array |-> [i \in 1..Len(target) |->
                   IF i > offset /\ i <= offset + Len(source)
                   THEN source[i - offset] ELSE target[i]]]

\* target.set(source, offset): RangeError when the source does not fit
TypedArraySet(target, source, offset) ==
    IF Len(source) + offset > Len(target)
    THEN [threw |-> TRUE, array |-> target]
    ELSE [threw |-> FALSE,
          array |-> [i \in 1..Len(target) |->
                        IF i > offset /\ i <= offset + Len(source)
                        THEN source[i - offset] ELSE target[i]]]

\* for (let i = 0; i < str.length; i += 2) bytes[i / 2] = parseInt(str.substr(i, 2), 16)
\* Iteration i writes element i / 2; every i = 0, 2, 4, ... below str.length runs.
HexLoop(str, bytes) ==
    [k \in 1..Len(bytes) |->
        LET i == 2 * (k - 1)
        IN  IF i < Len(str) THEN ToUint8(ParseInt16(Substr(str, i, 2))) ELSE bytes[k]]

\* new Uint8Array(str.length / 2) followed by the loop above
HexStringToBytes(str) == HexLoop(str, NewUint8Array(Len(str) \div 2))

(***************************************************************************)
(* Values handed back to the host.  A settled promise is a record          *)
(* [kind, value, error]; kind "undefined" is a call that returned no       *)
(* promise at all.                                                         *)
(***************************************************************************)
NoValue == [absent |-> TRUE]

NoError == [absent |-> TRUE]

Fulfilled(v) == [kind |-> "fulfilled", value |-> v, error |-> NoError]

\* throw new Error(`${prefix}${error}`) inside an async function
Rejected(prefix, cause) ==
    [kind  |-> "rejected", value |-> NoValue,
     error |-> [name |-> "Error", prefix |-> prefix, cause |-> cause]]

ReturnedUndefined == [kind |-> "undefined", value |-> NoValue, error |-> NoError]

(***************************************************************************)
(* getMetadata, getCryptoConfiguration                                     *)
(***************************************************************************)
getMetadata ==
    Fulfilled([name       |-> "My Protocol",
               identifier |-> "my-protocol",
               units      |-> [KAS |-> [symbol   |-> [value  |-> "KAS",
                                                      market |-> "kaspa-market",
                                                      asset  |-> "kaspa-asset"],
                                        decimals |-> 8]],
               mainUnit   |-> "KAS",
               account    |-> [standardDerivationPath |-> "m/84'/0'/0'/0/0"]])

getCryptoConfiguration == Fulfilled([algorithm |-> "secp256k1"])

(***************************************************************************)
(* getKeyPairFromDerivative: the body of the try block, up to the buffer   *)
(* fullKeypair, and the method with its catch block.                       *)
(***************************************************************************)
AssembleFullKeypair(derivative) ==
    LET secretKeyBytes == HexStringToBytes(derivative.secretKey)
        chainCodeBytes == HexStringToBytes(derivative.chainCode)
        publicKeyBytes == HexStringToBytes(derivative.publicKey)
        extended0 == NewUint8Array(96)
        extended1 == TypedArraySet(extended0, secretKeyBytes, 0)
        extended2 == TypedArraySet(extended1.array, secretKeyBytes, 32)
        extended3 == TypedArraySet(extended2.array, chainCodeBytes, 64)
        full0     == NewUint8Array(128)
        full1     == TypedArraySet(full0, extended3.array, 0)
        full2     == TypedArraySet(full1.array, publicKeyBytes, 96)
    IN  IF extended1.threw THEN [threw |-> TRUE, fullKeypair |-> <<>>]
        ELSE IF extended2.threw THEN [threw |-> TRUE, fullKeypair |-> <<>>]
        ELSE IF extended3.threw THEN [threw |-> TRUE, fullKeypair |-> <<>>]
        ELSE IF full1.threw THEN [threw |-> TRUE, fullKeypair |-> <<>>]
        ELSE IF full2.threw THEN [threw |-> TRUE, fullKeypair |-> <<>>]
        ELSE [threw |-> FALSE, fullKeypair |-> full2.array]

getKeyPairFromDerivative(derivative) ==
    LET body == AssembleFullKeypair(derivative)
    IN  IF body.threw
        THEN Rejected("Failed to derive key pair from derivative: ", "RangeError")
        ELSE Fulfilled([secretKey |-> [type   |-> "priv",
                                       format |-> "hex",
                                       value  |-> BytesToHexString(body.fullKeypair)],
                        publicKey |-> [type   |-> "pub",
                                       format |-> "hex",
                                       value  |-> derivative.publicKey]])

(***************************************************************************)
(* Strict hexadecimal text (the Byte-Codec of the specification), used to  *)
(* read inputs and results in the properties.                              *)
(***************************************************************************)
IsHexDigit(c) == DigitValue(c) >= 0

IsValidHex(s) == Len(s) % 2 = 0 /\ \A i \in 1..Len(s) : IsHexDigit(s[i])

hexToBytes(s) ==
    [k \in 1..(Len(s) \div 2) |-> DigitValue(s[2 * k - 1]) * 16 + DigitValue(s[2 * k])]

(***************************************************************************)
(* The curve library ../crypto/kaspa (KaspCrypto) is not part of the       *)
(* source tree, so what it does with a key is not known.  Each of the      *)
(* three steps the method takes in it (the PrivateKey constructor,         *)
(* Keypair.fromPrivateKey, publicKey.toString) may throw or return: a call *)
(* of the method is made with one behaviour of the library, named by the   *)
(* step that throws ("none" when all three return).  The specification     *)
(* adds one obligation: text that is not strict hexadecimal, a scalar of   *)
(* 32 bytes that is zero or not below the order of secp256k1, and bytes of *)
(* a length the library does not take are rejected, that is, some step     *)
(* throws.  The specification names 32 bytes as the length of a scalar,    *)
(* the comment of the source at line 110 names the 128-byte format; for    *)
(* both lengths every behaviour is allowed unless the 32-byte scalar is    *)
(* zero or too large.  The public key of accepted text is an opaque value. *)
(***************************************************************************)
CurveOrder ==
    <<255, 255, 255, 255, 255, 255, 255, 255, 255, 255, 255, 255, 255, 255, 255, 254,
      186, 174, 220, 230, 175,  72, 160,  59, 191, 210,  94, 140, 208,  54,  65,  65>>

RECURSIVE BytesBelow(_, _, _)
BytesBelow(a, b, i) ==
    IF i > Len(a) THEN FALSE
    ELSE IF a[i] # b[i] THEN a[i] < b[i]
    ELSE BytesBelow(a, b, i + 1)

KaspCryptoSteps ==
    <<"KaspCrypto.PrivateKey", "KaspCrypto.Keypair.fromPrivateKey", "publicKey.toString">>

KaspCryptoMustReject(value) ==
    \/ ~IsValidHex(value)
    \/ Len(hexToBytes(value)) \notin {32, 128}
    \/ /\ Len(hexToBytes(value)) = 32
       /\ \/ \A k \in 1..32 : hexToBytes(value)[k] = 0
          \/ ~BytesBelow(hexToBytes(value), CurveOrder, 1)

KaspCryptoBehaviours(value) ==
    IF KaspCryptoMustReject(value)
    THEN {KaspCryptoSteps[n] : n \in 1..Len(KaspCryptoSteps)}
    ELSE {KaspCryptoSteps[n] : n \in 1..Len(KaspCryptoSteps)} \cup {"none"}

KaspCryptoPublicKeyText(value) == [compressedPointOf |-> value]

(***************************************************************************)
(* getPublicKeyFromSecretKey, called while the library behaves as `lib`.   *)
(* `external` lists the calls made into the library, in order.             *)
(***************************************************************************)
PublicKeyBody(secretKey, lib) ==
    IF lib = "KaspCrypto.PrivateKey"
    THEN [threw |-> TRUE, value |-> NoValue, external |-> SubSeq(KaspCryptoSteps, 1, 1)]
    ELSE IF lib = "KaspCrypto.Keypair.fromPrivateKey"
    THEN [threw |-> TRUE, value |-> NoValue, external |-> SubSeq(KaspCryptoSteps, 1, 2)]
    ELSE IF lib = "publicKey.toString"
    THEN [threw |-> TRUE, value |-> NoValue, external |-> KaspCryptoSteps]
    ELSE [threw |-> FALSE, value |-> KaspCryptoPublicKeyText(secretKey.value),
          external |-> KaspCryptoSteps]

\* Variant: the error of the curve library is passed on without the wrapping
getPublicKeyFromSecretKeyUnwrapped(secretKey, lib) ==
    LET body == PublicKeyBody(secretKey, lib)
    IN  IF body.threw
        THEN Rejected("", "KaspCrypto")
        ELSE Fulfilled([type |-> "pub", format |-> "hex", value |-> body.value])

getPublicKeyFromSecretKey(secretKey, lib) ==
    LET body == PublicKeyBody(secretKey, lib)
    IN  IF body.threw
        THEN Rejected("Failed to derive public key: ", "KaspCrypto")
        ELSE Fulfilled([type |-> "pub", format |-> "hex", value |-> body.value])

(***************************************************************************)
(* signTransactionWithSecretKey, getDetailsFromTransaction: the bodies     *)
(* hold no statement, so the calls return undefined.                       *)
(***************************************************************************)
signTransactionWithSecretKey(transaction, secretKey) == ReturnedUndefined

getDetailsFromTransaction(transaction, publicKey) == ReturnedUndefined

(***************************************************************************)
(* Inputs of the host                                                      *)
(***************************************************************************)
Ramp(base, n) == [i \in 1..n |-> (base + i - 1) % 256]

Text(base, n) == BytesToHexString(Ramp(base, n))

SecretKeyTexts ==
    {Text(1, n) : n \in {0, 1, 31, 32, 33, 64, 65, 96, 97}}
    \cup {Text(1, 32) \o <<"a">>,
          <<"z", "z">> \o Text(2, 31),
          <<"1", "g">> \o Text(2, 31),
          <<"-", "1">> \o Text(2, 31),
          <<"\r", "7">> \o Text(2, 31),
          <<"A", "B">> \o Text(2, 31)}

ChainCodeTexts ==
    {Text(101, n) : n \in {0, 31, 32, 33}}
    \cup {Text(101, 32) \o <<"b">>, Text(101, 31) \o <<" ", "7">>}

PublicKeyTexts ==
    {Text(201, n) : n \in {0, 31, 32, 34}}
    \cup {<<"0", "3">> \o Text(201, 32),
          Text(201, 32) \o <<"7">>,
          <<"0", "x">> \o Text(202, 31),
          <<"\\u2028", "9">> \o Text(202, 31)}

AllDerivatives ==
    [secretKey : SecretKeyTexts, chainCode : ChainCodeTexts, publicKey : PublicKeyTexts]

Derivatives ==
    {[secretKey |-> Text(1, 32), chainCode |-> Text(101, 32), publicKey |-> Text(201, 32)],
     [secretKey |-> Text(1, 2), chainCode |-> Text(101, 1), publicKey |-> Text(201, 1)],
     [secretKey |-> Text(1, 32), chainCode |-> Text(101, 32),
      publicKey |-> <<"0", "3">> \o Text(201, 32)],
     [secretKey |-> <<"z", "z">> \o Text(2, 31), chainCode |-> Text(101, 32),
      publicKey |-> Text(201, 31) \o <<"7">>]}

SecretKeys ==
    {[type |-> "priv", format |-> "hex", value |-> Text(1, 32)],
     [type |-> "priv", format |-> "hex", value |-> BytesToHexString([i \in 1..32 |-> 0])],
     [type |-> "priv", format |-> "hex", value |-> BytesToHexString([i \in 1..32 |-> 255])],
     [type |-> "priv", format |-> "hex", value |-> <<"z", "z">> \o Text(2, 31)],
     [type |-> "priv", format |-> "encrypted", value |-> Text(1, 32)],
     [type |-> "pub", format |-> "hex", value |-> Text(1, 32)],
     [type |-> "priv", format |-> "hex", value |-> Text(1, 31)],
     [type |-> "priv", format |-> "hex", value |-> Text(1, 33)],
     getKeyPairFromDerivative(
         [secretKey |-> Text(1, 32), chainCode |-> Text(101, 32),
          publicKey |-> Text(201, 32)]).value.secretKey}

SigningKeys ==
    {[type |-> "priv", format |-> "hex", value |-> Text(1, 32)],
     [type |-> "priv", format |-> "hex", value |-> <<"z", "z">> \o Text(2, 31)]}

Transactions ==
    {[type |-> "unsigned", payload |-> <<1, 2>>],
     [type |-> "unsigned", payload |-> <<3>>]}

PublicKeys == {[type |-> "pub", format |-> "hex", value |-> <<"0", "3">> \o Text(201, 32)]}

(***************************************************************************)
(* State machine: the host calls the methods of one instance.              *)
(***************************************************************************)
Init == promises = <<>>

\* `thrown` is the step of the curve library that threw in the call ("none"
\* when none did, or none was taken)
Return(op, arg, outcome, external, thrown) ==
    /\ Len(promises) < MaxCalls
    /\ promises' = Append(promises, [op |-> op, arg |-> arg, outcome |-> outcome,
                                     external |-> external, thrown |-> thrown])

GetMetadataCall ==
    Return("getMetadata", <<>>, getMetadata, <<>>, "none")

GetCryptoConfigurationCall ==
    Return("getCryptoConfiguration", <<>>, getCryptoConfiguration, <<>>, "none")

GetKeyPairFromDerivativeCall(inputs) ==
    \E derivative \in inputs :
        Return("getKeyPairFromDerivative", derivative,
               getKeyPairFromDerivative(derivative), <<>>, "none")

GetPublicKeyFromSecretKeyCall ==
    \E secretKey \in SecretKeys :
        \E lib \in KaspCryptoBehaviours(secretKey.value) :
            Return("getPublicKeyFromSecretKey", secretKey,
                   getPublicKeyFromSecretKey(secretKey, lib),
                   PublicKeyBody(secretKey, lib).external, lib)

SignTransactionWithSecretKeyCall ==
    \E transaction \in Transactions, secretKey \in SigningKeys :
        Return("signTransactionWithSecretKey",
               [transaction |-> transaction, secretKey |-> secretKey],
               signTransactionWithSecretKey(transaction, secretKey), <<>>, "none")

GetDetailsFromTransactionCall ==
    \E transaction \in Transactions, publicKey \in PublicKeys :
        Return("getDetailsFromTransaction",
               [transaction |-> transaction, publicKey |-> publicKey],
               getDetailsFromTransaction(transaction, publicKey), <<>>, "none")

Next ==
    \/ GetMetadataCall
    \/ GetCryptoConfigurationCall
    \/ GetKeyPairFromDerivativeCall(Derivatives)
    \/ GetPublicKeyFromSecretKeyCall
    \/ SignTransactionWithSecretKeyCall
    \/ GetDetailsFromTransactionCall

Spec == Init /\ [][Next]_vars

\* One call of getKeyPairFromDerivative on a fresh instance, over all inputs
DeriveNext ==
    /\ promises = <<>>
    /\ GetKeyPairFromDerivativeCall(AllDerivatives)

DeriveSpec == Init /\ [][DeriveNext]_vars

(***************************************************************************)
(* Properties                                                              *)
(***************************************************************************)
Calls(op) == {i \in 1..Len(promises) : promises[i].op = op}

DecodedLength(text) == Len(text) \div 2

AllValidHex(d) ==
    IsValidHex(d.secretKey) /\ IsValidHex(d.chainCode) /\ IsValidHex(d.publicKey)

WellFormed(d) ==
    /\ AllValidHex(d)
    /\ Len(hexToBytes(d.secretKey)) = 32
    /\ Len(hexToBytes(d.chainCode)) = 32
    /\ Len(hexToBytes(d.publicKey)) = 33

IsLowerHexText(text) ==
    \A j \in 1..Len(text) : \E n \in 1..Len(HexDigits) : text[j] = HexDigits[n]

\* C1: every call of getKeyPairFromDerivative with a 32/32/33-byte derivative
\* returns a secret key of 128 bytes laid out as secret key, secret key,
\* chain code, last 32 bytes of the public key.
C1_LayoutOfWellFormedDerivative ==
    \A i \in Calls("getKeyPairFromDerivative") :
        LET p == promises[i]
        IN  WellFormed(p.arg) =>
              /\ p.outcome.kind = "fulfilled"
              /\ IsValidHex(p.outcome.value.secretKey.value)
              /\ LET key == hexToBytes(p.outcome.value.secretKey.value)
                     sk  == hexToBytes(p.arg.secretKey)
                     cc  == hexToBytes(p.arg.chainCode)
                     pk  == hexToBytes(p.arg.publicKey)
                 IN  /\ Len(key) = 128
                     /\ SubSeq(key, 1, 32) = sk
                     /\ SubSeq(key, 33, 64) = sk
                     /\ SubSeq(key, 65, 96) = cc
                     /\ SubSeq(key, 97, 128) = SubSeq(pk, 2, 33)

\* C2: every call of getKeyPairFromDerivative whose decoded secret key, chain
\* code or public key is not 32, 32, 33 bytes long is rejected with an
\* InvalidDerivativeLength error and returns no key pair.
C2_WrongLengthIsRejected ==
    \A i \in Calls("getKeyPairFromDerivative") :
        LET p == promises[i]
        IN  (AllValidHex(p.arg) /\ ~WellFormed(p.arg)) =>
              /\ p.outcome.kind = "rejected"
              /\ p.outcome.value = NoValue
              /\ p.outcome.error.cause = "InvalidDerivativeLength"

\* C3: every call of getKeyPairFromDerivative with a 32/32/33-byte derivative
\* returns a public key tagged pub/hex whose value is derivative.publicKey
\* unchanged, and a secret key tagged priv/hex.
C3_TagsOfWellFormedDerivative ==
    \A i \in Calls("getKeyPairFromDerivative") :
        LET p == promises[i]
        IN  WellFormed(p.arg) =>
              /\ p.outcome.kind = "fulfilled"
              /\ p.outcome.value.publicKey =
                     [type |-> "pub", format |-> "hex", value |-> p.arg.publicKey]
              /\ p.outcome.value.secretKey.type = "priv"
              /\ p.outcome.value.secretKey.format = "hex"

\* C4: every call of getKeyPairFromDerivative with a field that is not valid
\* hex (odd length or a non-hex character) is rejected with an error wrapping
\* MalformedEncoding and returns no key pair.
C4_InvalidHexIsRejected ==
    \A i \in Calls("getKeyPairFromDerivative") :
        LET p == promises[i]
        IN  ~AllValidHex(p.arg) =>
              /\ p.outcome.kind = "rejected"
              /\ p.outcome.value = NoValue
              /\ p.outcome.error.cause = "MalformedEncoding"

\* C5: every call of getPublicKeyFromSecretKey whose secret key has a format
\* other than "hex" (or a type other than "priv") is rejected with
\* UnsupportedEncoding and makes no call into the curve library.
C5_UnsupportedFormatIsRejected ==
    \A i \in Calls("getPublicKeyFromSecretKey") :
        LET p == promises[i]
        IN  (p.arg.format # "hex" \/ p.arg.type # "priv") =>
              /\ p.outcome.kind = "rejected"
              /\ p.outcome.error.cause = "UnsupportedEncoding"
              /\ p.external = <<>>

ZeroScalarText == BytesToHexString([i \in 1..32 |-> 0])

CurveRejects(text) ==
    \/ ~IsValidHex(text)
    \/ Len(text) # 64
    \/ \A k \in 1..32 : hexToBytes(text)[k] = 0
    \/ ~BytesBelow(hexToBytes(text), CurveOrder, 1)

\* it is rejected with SigningFailure.
C9_SignAttachesSignature ==
    \A i \in Calls("signTransactionWithSecretKey") :
        LET p == promises[i]
            t == p.arg.transaction
        IN  IF CurveRejects(p.arg.secretKey.value)
            THEN /\ p.outcome.kind = "rejected"
                 /\ p.outcome.error.cause = "SigningFailure"
            ELSE /\ p.outcome.kind = "fulfilled"
                 /\ "signature" \in DOMAIN p.outcome.value
                 /\ \A f \in DOMAIN t : f # "type" => p.outcome.value[f] = t[f]

Covered(j, d) ==
    \/ j < DecodedLength(d.secretKey)
    \/ 32 <= j /\ j < 32 + DecodedLength(d.secretKey)
    \/ 64 <= j /\ j < 64 + DecodedLength(d.chainCode)
    \/ 96 <= j /\ j < 96 + DecodedLength(d.publicKey)

\* C10: a call of getKeyPairFromDerivative is fulfilled exactly when the
\* decoded lengths satisfy L_s <= 64, L_c <= 32 and L_p <= 32; otherwise it is
\* rejected with the "Failed to derive key pair from derivative:" error and no
\* value.  A fulfilled call returns 256 lowercase hex characters, and every
\* byte no input covers is zero.
C10_ImplicitSuccessCondition ==
    \A i \in Calls("getKeyPairFromDerivative") :
        LET p  == promises[i]
            ok == /\ DecodedLength(p.arg.secretKey) <= 64
                  /\ DecodedLength(p.arg.chainCode) <= 32
                  /\ DecodedLength(p.arg.publicKey) <= 32
        IN  /\ p.outcome.kind = (IF ok THEN "fulfilled" ELSE "rejected")
            /\ p.outcome.kind = "rejected" =>
                 /\ p.outcome.value = NoValue
                 /\ p.outcome.error.name = "Error"
                 /\ p.outcome.error.prefix = "Failed to derive key pair from derivative: "
            /\ p.outcome.kind = "fulfilled" =>
                 LET text == p.outcome.value.secretKey.value
                 IN  /\ Len(text) = 256
                     /\ IsLowerHexText(text)
                     /\ \A j \in 0..127 :
                           ~Covered(j, p.arg) => hexToBytes(text)[j + 1] = 0

C10_Witness ==
    \E i \in Calls("getKeyPairFromDerivative") :
        /\ DecodedLength(promises[i].arg.secretKey) = 64
        /\ DecodedLength(promises[i].arg.chainCode) = 31
        /\ DecodedLength(promises[i].arg.publicKey) = 32
        /\ Len(promises[i].arg.publicKey) = 65
        /\ promises[i].outcome.kind = "fulfilled"

====
